---- MODULE Spec2Model ----
(***************************************************************************)
(* Model of the signaling broker of server.py: one room of the global      *)
(* `rooms` table, one websocket_endpoint handler per connection.  Handlers *)
(* are coroutines: each step of a handler runs from one suspension point   *)
(* (receive_text, or an await of a send/close that suspends it) to the     *)
(* next one, so the handlers interleave only at the awaits of the source.  *)
(***************************************************************************)
EXTENDS Integers, Sequences, FiniteSets, TLC

\* ---------------------------------------------------------------- bounds
MaxIds == 3          \* connections ever accepted (fresh uuid per connection)
MaxMsgs == 2         \* messages the clients send after their join
MaxAsyncMsgs == 2     \* the same, where awaits suspend
MaxMetaKeyMsgs == 3   \* the same, for the messages naming "_meta"
MaxKickMsgs == 3      \* the same, for the messages of a kicking host
MaxSuspend == 1      \* awaits that suspend their handler (the others return at once)

\* ------------------------------------------------------------------ keys
META == 0            \* the "_meta" key of rooms[room_id]
NoKey == -1          \* None / field absent
Ids == 1..MaxIds
Targets == Ids \cup {META, NoKey}
Names == {"n"}
SignalTypes == {"offer", "answer", "ice-candidate"}
Privileged == {"mute", "kick", "make-host", "lock-room", "unlock-room",
               "accept", "reject", "set-approval"}
Actions == Privileged \cup {"other"}

VARIABLES
  inDir,     \* room_id in rooms
  room,      \* keys of rooms[room_id], in dict insertion order
  rec,       \* the record object of each key (kept after the key is deleted)
  nextId,    \* next fresh client id
  pc,        \* per handler: none, await_join, main, busy, done, crashed
  loc,       \* per handler: the rest of the send sequence it is suspended in
  sent,      \* the messages handed to connections by the last step, in order
  ev,        \* the input consumed by the last step
  closed,    \* connections the server closed
  welcomes,  \* welcome messages handed to each connection so far
  nmsgs,     \* messages consumed by main loops so far
  nsusp,     \* awaits that suspended their handler so far
  joined     \* connections whose join message was admitted

vars ==
  <<inDir, room, rec, nextId, pc, loc, sent, ev, closed, welcomes, nmsgs, nsusp, joined>>

\* ------------------------------------------------------- dict helpers
EmptyDict == [f \in {} |-> TRUE]

\* dict.get(f, d)
Get(r, f, d) == IF f \in DOMAIN r THEN r[f] ELSE d

\* truthiness of rec.get(f)
Truthy(r, f) == f \in DOMAIN r /\ r[f] = TRUE

\* r[f] = v
Put(r, f, v) == [g \in DOMAIN r \cup {f} |-> IF g = f THEN v ELSE r[g]]

InSeq(k, s) == \E i \in 1..Len(s) : s[i] = k

Without(s, k) == SelectSeq(s, LAMBDA x : x # k)

\* rooms[room_id].setdefault("_meta", {})
WithMeta(rm) == IF InSeq(META, rm) THEN rm ELSE Append(rm, META)

\* rooms[room_id][client_id] = {"ws": ..., "displayName": "", ...}
Placeholder(c) ==
  [ws |-> c, displayName |-> "", is_host |-> FALSE, is_approved |-> TRUE]

\* _make_participant_info
MakeParticipantInfo(k, r) ==
  [id |-> k, displayName |-> Get(r, "displayName", ""), is_host |-> Truthy(r, "is_host")]

RECURSIVE ApprovedInfos(_, _)
\* [_make_participant_info(cid, rec) for cid, rec in items if rec.get("is_approved")]
ApprovedInfos(rm, rc) ==
  IF rm = <<>> THEN <<>>
  ELSE IF Truthy(rc[Head(rm)], "is_approved")
       THEN <<MakeParticipantInfo(Head(rm), rc[Head(rm)])>> \o ApprovedInfos(Tail(rm), rc)
       ELSE ApprovedInfos(Tail(rm), rc)

RECURSIVE FirstWith(_, _, _)
\* next((cid for cid, rec in items if rec.get(f)), None)
FirstWith(rm, rc, f) ==
  IF rm = <<>> THEN NoKey
  ELSE IF Truthy(rc[Head(rm)], f) THEN Head(rm) ELSE FirstWith(Tail(rm), rc, f)

\* [cid for cid, rec in items if rec.get("is_host")]
HostIds(rm, rc) == SelectSeq(rm, LAMBDA k : Truthy(rc[k], "is_host"))

\* ------------------------------------------------------------ messages
NoMsg ==
  [type |-> "none", by |-> NoKey, to |-> NoKey, from |-> NoKey, id |-> NoKey,
   participants |-> <<>>, host_id |-> NoKey, info |-> "", locked |-> FALSE,
   meta |-> EmptyDict]

Out(type, by) == [NoMsg EXCEPT !.type = type, !.by = by]

NoIn == [type |-> "none", from |-> NoKey, target |-> NoKey, action |-> "", value |-> FALSE]

NoEv ==
  [op |-> "init", who |-> NoKey, type |-> "none", action |-> "", target |-> NoKey,
   from |-> NoKey, flag |-> FALSE]

Ev(op, c, m) ==
  [NoEv EXCEPT !.op = op, !.who = c, !.type = m.type, !.action = m.action,
               !.target = m.target, !.from = m.from]

\* --------------------------------------------------- send sequences
\* One entry of a handler's remaining work.  kind:
\*   loop   for cid, rec in list(rooms[room_id].items()): ... await safe_send(rec["ws"], msg)
\*   one    await safe_send(ws, msg) on a connection already looked up
\*   hosts  for hid in host_ids: await safe_send(rooms[room_id][hid]["ws"], join_req)
\*   close  await rooms[room_id][target]["ws"].close()   (inside try)
\*   wclose await websocket.close()
\*   notify building of mute's notice from rooms[room_id][target]
\*   joined building of join_msg from rooms[room_id][target]
\*   raise  a lookup that raises KeyError outside any try
\*   vdel   del rooms[room_id][client_id]; return
\*   gc     if room_id in rooms and not rooms[room_id]: del rooms[room_id]
\* src: the line of server.py the entry stands for.
D(kind, src) ==
  [kind |-> kind, src |-> src, msg |-> NoMsg, msg2 |-> NoMsg, excl |-> NoKey,
   appr |-> FALSE, guarded |-> FALSE, fresh |-> FALSE, todo |-> <<>>, key |-> NoKey]

Loop(src, msg, excl, appr, guarded) ==
  [D("loop", src) EXCEPT !.msg = msg, !.excl = excl, !.appr = appr,
                    !.guarded = guarded, !.fresh = TRUE]

Loop2(src, msg, msg2) ==
  [D("loop", src) EXCEPT !.msg = msg, !.msg2 = msg2, !.appr = TRUE, !.fresh = TRUE]

One(src, msg) == [D("one", src) EXCEPT !.msg = msg]

HostsLoop(src, msg, hids) == [D("hosts", src) EXCEPT !.msg = msg, !.todo = hids]

Step(kind, src, k) == [D(kind, src) EXCEPT !.key = k]

Res(eff, out, plan, k) == [eff |-> eff, out |-> out, plan |-> plan, key |-> k]

RECURSIVE Advance(_, _, _)

\* for cid, rec in <todo>: the entry (k, rec[k]) of a loop d, with dd the loop after it
LoopEntry(d, dd, k, rest, rm, rc) ==
  IF k = d.excl \/ (d.appr /\ ~Truthy(rc[k], "is_approved"))
  THEN Advance(<<dd>> \o rest, rm, rc)
  ELSE IF "ws" \notin DOMAIN rc[k]
  THEN IF d.guarded THEN Advance(<<dd>> \o rest, rm, rc)
       ELSE Res("crash", NoMsg, <<[dd EXCEPT !.todo = <<k>> \o @]>> \o rest, k)
  ELSE Res("send",
           [d.msg EXCEPT !.to = k,
                         !.meta = IF d.msg.type = "room-meta" THEN rc[META] ELSE @],
           (IF d.msg2.type = "none" THEN <<>>
            ELSE <<One(d.src + 1, [d.msg2 EXCEPT !.to = k])>>) \o <<dd>> \o rest,
           NoKey)

LoopFrom(d, todo, rest, rm, rc) ==
  IF todo = <<>> THEN Advance(rest, rm, rc)
  ELSE LoopEntry(d, [d EXCEPT !.fresh = FALSE, !.todo = Tail(todo)], Head(todo),
                 rest, rm, rc)

\* for hid in host_ids: ... rooms[room_id][hid]["ws"] ... (inside try)
HostEntry(d, dd, k, rest, rm, rc) ==
  IF InSeq(k, rm) /\ "ws" \in DOMAIN rc[k]
  THEN Res("send", [d.msg EXCEPT !.to = k], <<dd>> \o rest, NoKey)
  ELSE Advance(<<dd>> \o rest, rm, rc)

AdvanceHead(d, rest, plan, rm, rc) ==
  CASE d.kind = "loop" -> LoopFrom(d, IF d.fresh THEN rm ELSE d.todo, rest, rm, rc)
    [] d.kind = "one" -> Res("send", d.msg, rest, NoKey)
    [] d.kind = "hosts" ->
         IF d.todo = <<>> THEN Advance(rest, rm, rc)
         ELSE HostEntry(d, [d EXCEPT !.todo = Tail(d.todo)], Head(d.todo), rest, rm, rc)
    [] d.kind = "close" ->
         IF InSeq(d.key, rm) /\ "ws" \in DOMAIN rc[d.key]
         THEN Res("close", NoMsg, rest, d.key)
         ELSE Res("idle", NoMsg, <<>>, NoKey)
    [] d.kind = "wclose" -> Res("close", NoMsg, rest, d.key)
    [] d.kind = "notify" ->
         IF InSeq(d.key, rm) /\ "displayName" \in DOMAIN rc[d.key]
         THEN Advance(rest, rm, rc)
         ELSE Res("crash", NoMsg, plan, d.key)
    [] d.kind = "joined" ->
         IF InSeq(d.key, rm) THEN Advance(rest, rm, rc)
         ELSE Res("crash", NoMsg, plan, d.key)
    [] d.kind = "raise" -> Res("crash", NoMsg, plan, d.key)
    [] d.kind = "vdel" -> Res("vdel", NoMsg, <<>>, d.key)
    [] OTHER -> Res("gc", NoMsg, <<>>, NoKey)

\* Runs handler code from the head of plan to the next await (eff "send" or
\* "close"), to the end of the message's handling (eff "idle": back at
\* receive_text), to the handler's return (eff "vdel", "gc"), or to an
\* uncaught KeyError (eff "crash", with the code it never ran as plan).
\* rm, rc: the room and records at that time.
Advance(plan, rm, rc) ==
  IF plan = <<>> THEN Res("idle", NoMsg, <<>>, NoKey)
  ELSE AdvanceHead(Head(plan), Tail(plan), plan, rm, rc)

RECURSIVE Awaits(_, _, _)

AwaitsAfter(r, rm, rc) ==
  IF r.eff \in {"send", "close"} THEN <<r>> \o Awaits(r.plan, rm, rc) ELSE <<r>>

\* The awaits a handler goes through from the head of plan when none of them
\* suspends it, ending with how its code ends (idle, crash, vdel, gc).
Awaits(plan, rm, rc) == AwaitsAfter(Advance(plan, rm, rc), rm, rc)

Sends(tr, i) ==
  LET idx == SelectSeq([j \in 1..i |-> j], LAMBDA j : tr[j].eff = "send") IN
  [j \in 1..Len(idx) |-> tr[idx[j]].out]

Closes(tr, i) == {tr[j].key : j \in {x \in 1..i : tr[x].eff = "close"}}

CountTo(msgs, type, k) ==
  Cardinality({j \in 1..Len(msgs) : msgs[j].type = type /\ msgs[j].to = k})

\* The handler of c continues with plan from the state (inD, rm, rc); e is the
\* input consumed by this step.  An await either returns at once or suspends
\* the handler (susp: it is suspended in the await that gave `last`, and the
\* other handlers run before it is resumed); maxs bounds the awaits that
\* suspend.  A handler suspended in the last await of a message's handling is
\* the same as one back at receive_text.
RunAt(c, last, outs, cls, susp, inD, rm, rc, e, maxs) ==
    /\ susp => (nsusp < maxs /\ last.plan # <<>>)
    /\ nsusp' = IF susp THEN nsusp + 1 ELSE nsusp
    /\ sent' = outs
    /\ ev' = e
    /\ loc' = [loc EXCEPT ![c] = IF susp \/ last.eff = "crash" THEN last.plan ELSE <<>>]
    /\ pc' = [pc EXCEPT ![c] =
                CASE susp -> "busy"
                  [] last.eff = "crash" -> "crashed"
                  [] last.eff = "idle" -> "main"
                  [] OTHER -> "done"]
    /\ rec' = rc
    /\ closed' = closed \cup cls
    /\ room' = IF ~susp /\ last.eff = "vdel" THEN Without(rm, c) ELSE rm
    /\ inDir' = IF ~susp /\ last.eff = "gc" THEN inD /\ rm # <<>> ELSE inD
    /\ welcomes' = [k \in Ids |-> welcomes[k] + CountTo(outs, "welcome", k)]

RunTr(c, tr, n, inD, rm, rc, e, maxs) ==
  \E i \in 1..n :
    RunAt(c, tr[i], Sends(tr, i), Closes(tr, i), i < n, inD, rm, rc, e, maxs)

Run(c, plan, inD, rm, rc, e, maxs) ==
  RunTr(c, Awaits(plan, rm, rc), Len(Awaits(plan, rm, rc)), inD, rm, rc, e, maxs)

RunEff(c, h, e, maxs) == Run(c, h.plan, inDir, h.rm, h.rc, e, maxs)

\* --------------------------------------------------------------- actions
Init ==
  /\ inDir = FALSE
  /\ room = <<>>
  /\ rec = [k \in Ids \cup {META} |-> EmptyDict]
  /\ nextId = 1
  /\ pc = [c \in Ids |-> "none"]
  /\ loc = [c \in Ids |-> <<>>]
  /\ sent = <<>>
  /\ ev = NoEv
  /\ closed = {}
  /\ welcomes = [c \in Ids |-> 0]
  /\ nmsgs = 0
  /\ nsusp = 0
  /\ joined = {}

\* lines 32-41: the connection is accepted and registered
Connect ==
  /\ nextId <= MaxIds
  /\ nextId' = nextId + 1
  /\ inDir' = TRUE
  /\ room' = Append(room, nextId)
  /\ rec' = [rec EXCEPT ![nextId] = Placeholder(nextId)]
  /\ pc' = [pc EXCEPT ![nextId] = "await_join"]
  /\ sent' = <<>>
  /\ ev' = [NoEv EXCEPT !.op = "connect", !.who = nextId]
  /\ UNCHANGED <<loc, closed, welcomes, nmsgs, nsusp, joined>>

\* lines 53-58: the first message is not a join
NotJoin(c, maxs) ==
  /\ pc[c] = "await_join"
  /\ Run(c, <<One(54, [Out("error", c) EXCEPT !.to = c, !.info = "expected-join"]),
              Step("wclose", 55, c), Step("vdel", 56, c)>>,
         inDir, room, rec, [NoEv EXCEPT !.op = "notjoin", !.who = c], maxs)
  /\ UNCHANGED <<nextId, nmsgs, joined>>

\* lines 60-80: admission
Admit(c, name, rm, rc) ==
  LET named == [rc EXCEPT ![c] = Put(@, "displayName", name)]
      require_approval == Truthy(named[META], "require_approval")
      existing_hosts == HostIds(rm, named)
  IN
  IF existing_hosts = <<>>
  THEN [named EXCEPT ![c] = Put(Put(@, "is_host", TRUE), "is_approved", TRUE)]
  ELSE [named EXCEPT ![c] = Put(@, "is_approved", ~require_approval)]

\* lines 82-121: what the joiner's handler sends after admission
JoinPlan(c, rm, rc) ==
  IF ~rc[c]["is_approved"]
  THEN <<One(87, [Out("waiting", c) EXCEPT !.to = c]),
         HostsLoop(90, [Out("join-request", c) EXCEPT !.id = c], HostIds(rm, rc))>>
  ELSE <<One(102, [Out("welcome", c) EXCEPT !.to = c, !.id = c,
                                       !.participants = ApprovedInfos(rm, rc),
                                       !.host_id = FirstWith(rm, rc, "is_host")]),
         Step("joined", 105, c),
         Loop(106, [Out("participant-joined", c) EXCEPT !.id = c], c, TRUE, FALSE),
         Loop(115, [Out("need-offer", c) EXCEPT !.id = c], c, TRUE, TRUE)>>

\* lines 45-121: the first message is a join
Join(c, maxs) ==
  /\ pc[c] = "await_join"
  /\ \E name \in Names :
       LET rc == Admit(c, name, room, rec) IN
       Run(c, JoinPlan(c, room, rc), inDir, room, rc,
           [NoEv EXCEPT !.op = "join", !.who = c], maxs)
  /\ joined' = joined \cup {c}
  /\ UNCHANGED <<nextId, nmsgs>>

\* a suspended handler is resumed after its await
Resume(c, maxs) ==
  /\ pc[c] = "busy"
  /\ Run(c, loc[c], inDir, room, rec, [NoEv EXCEPT !.op = "resume", !.who = c], maxs)
  /\ UNCHANGED <<nextId, nmsgs, joined>>

\* ------------------------------------------------------ the main loop
Froms == {NoKey, 1}      \* client-supplied "from": absent, or the id of client 1
Targeted == {"accept", "reject", "mute", "kick", "make-host"}

In(type) == [NoIn EXCEPT !.type = type]

\* the messages a client may send after its join
InMsgs ==
  {[In(t) EXCEPT !.target = k, !.from = f] : t \in SignalTypes, k \in Targets, f \in Froms}
  \cup {In("chat"), In("update-name"), In("malformed")}
  \cup {[In("other") EXCEPT !.from = f] : f \in Froms}
  \cup {[In("action") EXCEPT !.action = a, !.target = k] : a \in Targeted, k \in Targets}
  \cup {[In("action") EXCEPT !.action = a] : a \in Actions \ (Targeted \cup {"set-approval"})}
  \cup {[In("action") EXCEPT !.action = "set-approval", !.value = v] : v \in BOOLEAN}

\* the messages that change flags, names or the registry's keys
AsyncMsgs ==
  {[In("action") EXCEPT !.action = a, !.target = k] :
     a \in {"accept", "make-host"}, k \in Targets \ {NoKey}}
  \cup {[In("action") EXCEPT !.action = "set-approval", !.value = v] : v \in BOOLEAN}
  \cup {In("update-name")}

\* the messages of clients that name the "_meta" key where an id is expected
MetaKeyMsgs ==
  {[In(t) EXCEPT !.target = k] : t \in SignalTypes, k \in Ids \cup {META}}
  \cup {[In("action") EXCEPT !.action = "accept", !.target = k] : k \in Ids \cup {META}}
  \cup {[In("action") EXCEPT !.action = "set-approval", !.value = v] : v \in BOOLEAN}

\* the messages of a host that kicks, next to those that set and accept
KickMsgs ==
  {[In("action") EXCEPT !.action = "kick", !.target = k] : k \in Ids}
  \cup {[In("action") EXCEPT !.action = "accept", !.target = k] : k \in Ids \cup {META}}
  \cup {[In("action") EXCEPT !.action = "set-approval", !.value = v] : v \in BOOLEAN}

\* line 131: message.setdefault("from", client_id)
StampFrom(c, m) == IF m.from = NoKey THEN c ELSE m.from

HasWs(k, rc) == "ws" \in DOMAIN rc[k]

Eff(rm, rc, plan) == [rm |-> rm, rc |-> rc, plan |-> plan]

ErrorTo(src, c, info) == One(src, [Out("error", c) EXCEPT !.to = c, !.info = info])

\* lines 135-149: offer / answer / ice-candidate
Signal(c, m, rm, rc) ==
  LET target == m.target IN
  IF target # NoKey /\ InSeq(target, rm)
  THEN IF Truthy(rc[target], "is_approved")
       THEN IF HasWs(target, rc)
            THEN Eff(rm, rc, <<One(141, [Out(m.type, c) EXCEPT !.to = target,
                                                               !.from = StampFrom(c, m)])>>)
            ELSE Eff(rm, rc, <<Step("raise", 141, target)>>)
       ELSE Eff(rm, rc, <<ErrorTo(144, c, "not-approved")>>)
  ELSE Eff(rm, rc, <<ErrorTo(147, c, "not-in-room")>>)

\* lines 151-159
Chat(c, m, rm, rc) ==
  Eff(rm, rc, <<Loop(154, [Out("chat", c) EXCEPT !.from = c], c, TRUE, FALSE)>>)

\* lines 177-207
Accept(c, target, rm, rc) ==
  IF InSeq(target, rm) /\ ~Truthy(rc[target], "is_approved")
  THEN LET rc2 == [rc EXCEPT ![target] = Put(@, "is_approved", TRUE)]
           participants == ApprovedInfos(rm, rc2)
           host_id == FirstWith(rm, rc2, "is_host")
       IN
       IF ~HasWs(target, rc2) THEN Eff(rm, rc2, <<Step("raise", 185, target)>>)
       ELSE Eff(rm, rc2,
                <<One(185, [Out("welcome", c) EXCEPT !.to = target, !.id = target,
                                                !.participants = participants,
                                                !.host_id = host_id]),
                  Step("joined", 187, target),
                  Loop(188, [Out("participant-joined", c) EXCEPT !.id = target],
                       target, TRUE, FALSE),
                  Loop(194, [Out("participants-update", c) EXCEPT
                               !.participants = participants, !.host_id = host_id],
                       NoKey, TRUE, FALSE),
                  Loop(200, [Out("need-offer", c) EXCEPT !.id = target],
                       target, TRUE, TRUE)>>)
  ELSE Eff(rm, rc, <<>>)

\* lines 209-218 (cmd = "you-are-rejected") and 231-240 (cmd = "you-are-kicked")
CloseTarget(src, c, target, cmd, rm, rc) ==
  IF HasWs(target, rc)
  THEN Eff(rm, rc, <<One(src, [Out("command", c) EXCEPT !.to = target, !.info = cmd,
                                                        !.from = c]),
                     Step("close", src + 1, target)>>)
  ELSE Eff(rm, rc, <<>>)

\* reject that does not look at the target's is_approved
RejectAny(c, target, rm, rc) ==
  IF InSeq(target, rm)
  THEN CloseTarget(213, c, target, "you-are-rejected", rm, rc)
  ELSE Eff(rm, rc, <<>>)

Reject(c, target, rm, rc) ==
  IF InSeq(target, rm) /\ ~Truthy(rc[target], "is_approved")
  THEN CloseTarget(213, c, target, "you-are-rejected", rm, rc)
  ELSE Eff(rm, rc, <<>>)

Kick(c, target, rm, rc) ==
  IF InSeq(target, rm)
  THEN CloseTarget(235, c, target, "you-are-kicked", rm, rc)
  ELSE Eff(rm, rc, <<>>)

\* lines 220-229
Mute(c, target, rm, rc) ==
  IF InSeq(target, rm)
  THEN IF ~HasWs(target, rc) THEN Eff(rm, rc, <<Step("raise", 223, target)>>)
       ELSE Eff(rm, rc,
                <<One(223, [Out("command", c) EXCEPT !.to = target,
                                                     !.info = "force-mute", !.from = c]),
                  Step("notify", 224, target),
                  Loop(225, Out("system", c), NoKey, TRUE, FALSE)>>)
  ELSE Eff(rm, rc, <<>>)

\* make-host that leaves the old host's flag set
MakeHostKeepOthers(c, target, rm, rc) ==
  IF InSeq(target, rm)
  THEN LET rc2 == [rc EXCEPT ![target] = Put(@, "is_host", TRUE)] IN
       Eff(rm, rc2,
           <<Loop(250, [Out("participants-update", c) EXCEPT
                          !.participants = ApprovedInfos(rm, rc2), !.host_id = target],
                  NoKey, TRUE, FALSE)>>)
  ELSE Eff(rm, rc, <<>>)

\* lines 242-254
MakeHost(c, target, rm, rc) ==
  IF InSeq(target, rm)
  THEN LET rc2 == [k \in DOMAIN rc |->
                     IF InSeq(k, rm) THEN Put(rc[k], "is_host", k = target) ELSE rc[k]]
       IN
       Eff(rm, rc2,
           <<Loop(250, [Out("participants-update", c) EXCEPT
                          !.participants = ApprovedInfos(rm, rc2), !.host_id = target],
                  NoKey, TRUE, FALSE)>>)
  ELSE Eff(rm, rc, <<>>)

\* lines 256-266
LockRoom(c, v, rm, rc) ==
  Eff(WithMeta(rm), [rc EXCEPT ![META] = Put(@, "locked", v)],
      <<Loop(259, [Out("room-lock", c) EXCEPT !.locked = v], NoKey, FALSE, FALSE)>>)

\* lines 268-277
SetApproval(c, v, rm, rc) ==
  Eff(WithMeta(rm), [rc EXCEPT ![META] = Put(@, "require_approval", v)],
      <<Loop(273, Out("room-meta", c), NoKey, TRUE, FALSE)>>)

\* host actions with the check of lines 170-175 left out
HostActionUnchecked(c, m, rm, rc) ==
  LET action == m.action
      target == m.target
  IN
  IF ~InSeq(c, rm) \/ rc[c] = EmptyDict
  THEN Eff(rm, rc, <<>>)
  ELSE CASE action = "accept" /\ target # NoKey -> Accept(c, target, rm, rc)
         [] action = "reject" /\ target # NoKey -> Reject(c, target, rm, rc)
         [] action = "mute" /\ target # NoKey -> Mute(c, target, rm, rc)
         [] action = "kick" /\ target # NoKey -> Kick(c, target, rm, rc)
         [] action = "make-host" /\ target # NoKey -> MakeHost(c, target, rm, rc)
         [] action = "lock-room" -> LockRoom(c, TRUE, rm, rc)
         [] action = "unlock-room" -> LockRoom(c, FALSE, rm, rc)
         [] action = "set-approval" -> SetApproval(c, m.value, rm, rc)
         [] OTHER -> Eff(rm, rc, <<ErrorTo(280, c, "unknown-action")>>)

\* lines 161-282
HostAction(c, m, rm, rc) ==
  LET action == m.action
      target == m.target
  IN
  IF ~InSeq(c, rm) \/ rc[c] = EmptyDict
  THEN Eff(rm, rc, <<>>)
  ELSE IF action \in Privileged /\ ~Truthy(rc[c], "is_host")
  THEN Eff(rm, rc, <<ErrorTo(173, c, "only-host")>>)
  ELSE CASE action = "accept" /\ target # NoKey -> Accept(c, target, rm, rc)
         [] action = "reject" /\ target # NoKey -> Reject(c, target, rm, rc)
         [] action = "mute" /\ target # NoKey -> Mute(c, target, rm, rc)
         [] action = "kick" /\ target # NoKey -> Kick(c, target, rm, rc)
         [] action = "make-host" /\ target # NoKey -> MakeHost(c, target, rm, rc)
         [] action = "lock-room" -> LockRoom(c, TRUE, rm, rc)
         [] action = "unlock-room" -> LockRoom(c, FALSE, rm, rc)
         [] action = "set-approval" -> SetApproval(c, m.value, rm, rc)
         [] OTHER -> Eff(rm, rc, <<ErrorTo(280, c, "unknown-action")>>)

\* lines 284-293
UpdateName(c, name, rm, rc) ==
  LET rc2 == [rc EXCEPT ![c] = Put(@, "displayName", name)] IN
  Eff(rm, rc2,
      <<Loop(290, [Out("participants-update", c) EXCEPT
                     !.participants = ApprovedInfos(rm, rc2),
                     !.host_id = FirstWith(rm, rc2, "is_host")],
             NoKey, TRUE, FALSE)>>)

\* lines 295-300
Fallback(c, m, rm, rc) ==
  Eff(rm, rc,
      <<Loop(296, [Out(m.type, c) EXCEPT !.from = StampFrom(c, m)], c, TRUE, FALSE)>>)

\* lines 124-300: one message of the main loop
Handle(c, m, name, rm, rc) ==
  CASE m.type = "malformed" -> Eff(rm, rc, <<>>)
    [] m.type \in SignalTypes -> Signal(c, m, rm, rc)
    [] m.type = "chat" -> Chat(c, m, rm, rc)
    [] m.type = "action" -> HostAction(c, m, rm, rc)
    [] m.type = "update-name" -> UpdateName(c, name, rm, rc)
    [] OTHER -> Fallback(c, m, rm, rc)

Recv(c, msgs, maxm, maxs) ==
  /\ pc[c] = "main"
  /\ nmsgs < maxm
  /\ nmsgs' = nmsgs + 1
  /\ \E m \in msgs, name \in Names :
       RunEff(c, Handle(c, m, name, room, rec), Ev("recv", c, m), maxs)
  /\ UNCHANGED <<nextId, joined>>

\* lines 311-321: host succession
Promote(rm, rc) ==
  LET first_cid == FirstWith(rm, rc, "is_approved") IN
  IF first_cid # NoKey THEN [rc EXCEPT ![first_cid] = Put(@, "is_host", TRUE)] ELSE rc

\* lines 302-333: receive_text raises WebSocketDisconnect
Disconnect(c, maxs) ==
  /\ pc[c] \in {"await_join", "main"}
  /\ LET was_host == Truthy(rec[c], "is_host")
         rm == Without(room, c)
         rc == IF was_host /\ rm # <<>> THEN Promote(rm, rec) ELSE rec
     IN
     IF inDir /\ InSeq(c, room)
     THEN Run(c, <<Loop2(327, [Out("participant-left", c) EXCEPT !.id = c],
                         [Out("participants-update", c) EXCEPT
                            !.participants = ApprovedInfos(rm, rc),
                            !.host_id = FirstWith(rm, rc, "is_host")]),
                   Step("gc", 332, c)>>,
              inDir, rm, rc,
              [NoEv EXCEPT !.op = "disconnect", !.who = c, !.flag = was_host /\ rm # <<>>],
              maxs)
     ELSE Run(c, <<Step("gc", 332, c)>>, inDir, room, rec,
              [NoEv EXCEPT !.op = "disconnect", !.who = c], maxs)
  /\ UNCHANGED <<nextId, nmsgs, joined>>

\* Every await returns at once: each handler runs a message to its end.
Next ==
  \/ Connect
  \/ \E c \in Ids : NotJoin(c, 0)
  \/ \E c \in Ids : Join(c, 0)
  \/ \E c \in Ids : Recv(c, InMsgs, MaxMsgs, 0)
  \/ \E c \in Ids : Disconnect(c, 0)

Spec == Init /\ [][Next]_vars

\* Awaits may suspend their handler, and the handlers interleave there.
NextAsync ==
  \/ Connect
  \/ \E c \in Ids : NotJoin(c, MaxSuspend)
  \/ \E c \in Ids : Join(c, MaxSuspend)
  \/ \E c \in Ids : Recv(c, AsyncMsgs, MaxAsyncMsgs, MaxSuspend)
  \/ \E c \in Ids : Resume(c, MaxSuspend)
  \/ \E c \in Ids : Disconnect(c, MaxSuspend)

SpecAsync == Init /\ [][NextAsync]_vars

\* Longer exchanges, every await returning at once, over MetaKeyMsgs.
NextMetaKey ==
  \/ Connect
  \/ \E c \in Ids : NotJoin(c, 0)
  \/ \E c \in Ids : Join(c, 0)
  \/ \E c \in Ids : Recv(c, MetaKeyMsgs, MaxMetaKeyMsgs, 0)
  \/ \E c \in Ids : Disconnect(c, 0)

SpecMetaKey == Init /\ [][NextMetaKey]_vars

\* The transport reports a close by the server to the closed connection's
\* handler: its receive_text (lines 45, 124) returns no further message and
\* raises WebSocketDisconnect.
NextKick ==
  \/ Connect
  \/ \E c \in Ids \ closed : NotJoin(c, 0)
  \/ \E c \in Ids \ closed : Join(c, 0)
  \/ \E c \in Ids \ closed : Recv(c, KickMsgs, MaxKickMsgs, 0)
  \/ \E c \in Ids : Disconnect(c, 0)

\* The handler of a connection the server closed leaves its receive_text:
\* under NextKick the step that does so is Disconnect(c, 0), which ends the
\* handler at line 333 or in an exception of the fan-out of lines 327-330.
ClosureReported(c) ==
  /\ c \in closed
  /\ pc[c] \in {"await_join", "main"}
  /\ pc' \in {[pc EXCEPT ![c] = v] : v \in {"done", "crashed"}}

SpecKick ==
  /\ Init /\ [][NextKick]_vars
  /\ \A c \in Ids : WF_pc(ClosureReported(c))

\* ------------------------------------------------------------ properties
Registry == {k \in Ids : InSeq(k, room)}
Hosts == {k \in Registry : Truthy(rec[k], "is_host")}
Approved == {k \in Registry : Truthy(rec[k], "is_approved")}
Pending == Registry \ Approved
SentMsgs == {sent[i] : i \in 1..Len(sent)}
RosterIds(m) == {m.participants[i].id : i \in 1..Len(m.participants)}
Rosters == {m \in SentMsgs : m.type \in {"welcome", "participants-update"}}

\* C1: in every reachable state, whatever the interleaving of joins, make-host
\* actions, accepts and disconnects at the awaits, at most one participant of
\* the room has is_host set.
C1_AtMostOneHost == Cardinality(Hosts) <= 1

\* a make-host has just been handled while the fan-out of an earlier make-host
\* by another handler is still suspended
C1_TwoMakeHostsInFlight ==
  \E c \in Ids :
    /\ pc[c] = "busy"
    /\ Head(loc[c]).src = 250
    /\ ev.op = "recv" /\ ev.action = "make-host" /\ ev.who # c
    /\ Hosts = {ev.target}

\* C2: a room holding at least one participant that completed the join
\* handshake (approved or pending) has exactly one host.
C2_OccupiedRoomHasHost ==
  (joined \cap Registry # {}) => Cardinality(Hosts) = 1

\* C3: no welcome or participants-update handed to a connection lists an id
\* that is pending (in the registry with is_approved false) at that moment.
C3_NoPendingInRoster ==
  \A m \in Rosters : RosterIds(m) \cap Pending = {}

\* the last step handled a message of client ev.who of the given type
Handled(type) == ev.op = "recv" /\ ev.type = type

IsErrorTo(m, c) == m.type = "error" /\ m.to = c

\* the participants of the room in insertion order, the "_meta" key left out
Members == SelectSeq(room, LAMBDA k : k \in Ids)

\* C4: an offer, answer or ice-candidate is delivered to its target, and to no
\* one else, only if the target is a participant of the registry with
\* is_approved set; otherwise the sender gets an error and nobody else gets
\* anything (so a pending participant never receives signaling).
C4_SignalOnlyToApproved ==
  (ev.op = "recv" /\ ev.type \in SignalTypes) =>
    IF ev.target \in Approved
    THEN Len(sent) = 1 /\ sent[1].type = ev.type /\ sent[1].to = ev.target
    ELSE Len(sent) = 1 /\ IsErrorTo(sent[1], ev.who)

\* an offer addressed to a pending participant has been refused
C4_SignalToPendingRefused ==
  /\ ev.op = "recv" /\ ev.type \in SignalTypes
  /\ ev.target \in Pending
  /\ Len(sent) = 1 /\ IsErrorTo(sent[1], ev.who)

\* C5: a privileged action of a participant that is not host gets its sender
\* an error and nothing else: the registry, every flag, the "_meta" values,
\* the directory and the closed connections are as before, and nobody else is
\* sent anything.
C5_DeniedActionChangesNothing ==
  [][(/\ ev'.op = "recv" /\ ev'.type = "action"
      /\ ev'.action \in Privileged
      /\ ~Truthy(rec[ev'.who], "is_host"))
     => (/\ Len(sent') = 1 /\ IsErrorTo(sent'[1], ev'.who)
         /\ room' = room /\ rec' = rec /\ inDir' = inDir /\ closed' = closed)]_vars

\* a participant that is not host has asked to kick or reject or accept a
\* pending participant of the room and got the error
C5_DeniedActionOnPending ==
  /\ Handled("action")
  /\ ev.action \in {"accept", "reject", "kick"}
  /\ ev.who \in Approved \ Hosts
  /\ ev.target \in Pending
  /\ Len(sent) = 1 /\ IsErrorTo(sent[1], ev.who) /\ sent[1].info = "only-host"
  /\ ev.target \notin closed

\* C6: every message forwarded on behalf of a sender (signaling, chat, any
\* other forwarded type) carries the id of the connection it came from as
\* `from`, whatever `from` the client put into it.
C6_FromIsSender ==
  \A m \in SentMsgs :
    m.type \in SignalTypes \cup {"chat", "other"} => m.from = m.by

\* C7: once a disconnect has taken the last participant out of the room, the
\* room is gone from the directory and nothing of it (no "_meta" entry with
\* its require_approval and locked values) is left for the next join.
C7_LastLeaveRemovesRoom ==
  (ev.op = "disconnect" /\ Registry = {}) => (~inDir /\ room = <<>>)

\* the first approved participant in insertion order
FirstApproved == FirstWith(Members, rec, "is_approved")

\* the participants-update messages of the last step that went to k
UpdatesTo(k) == {m \in SentMsgs : m.type = "participants-update" /\ m.to = k}

\* C8 (promotion): the step in which the host leaves approved participants
\* behind makes exactly the first approved one in insertion order host and
\* keeps the room in the directory.
C8_HostLeavePromotes ==
  (ev.op = "disconnect" /\ ev.flag /\ Approved # {}) =>
    (Hosts = {FirstApproved} /\ inDir)

\* C8 (fan-out): a host's disconnect handler that has ended has handed every
\* remaining approved participant a participants-update naming the new host:
\* when it ran through in one step the updates are all in that step, and it
\* never ends in an exception with approved participants still to be served.
C8_HostLeaveUpdatesAll ==
  /\ (ev.op = "disconnect" /\ ev.flag /\ pc[ev.who] = "done") =>
       \A k \in Approved : \E m \in UpdatesTo(k) : m.host_id = FirstApproved
  /\ \A c \in Ids :
       (/\ pc[c] = "crashed" /\ loc[c] # <<>>
        /\ Head(loc[c]).src = 327 /\ Truthy(rec[c], "is_host"))
       => \A i \in 1..Len(Head(loc[c]).todo) :
            Head(loc[c]).todo[i] \notin Approved

\* C8: when the host disconnects while an approved participant remains, the
\* first approved participant in insertion order becomes the one host, every
\* remaining approved participant gets a participants-update with that
\* host_id, and the room stays in the directory.
C8_HostSuccession == C8_HostLeavePromotes /\ C8_HostLeaveUpdatesAll

\* the welcome messages of the last step that went to k
WelcomesTo(k) == {m \in SentMsgs : m.type = "welcome" /\ m.to = k}

NoDuplicates(m) ==
  \A i, j \in 1..Len(m.participants) :
    m.participants[i].id = m.participants[j].id => i = j

\* C9: an accept of the host for a pending participant leaves the host and
\* the accepted one approved, and hands the accepted one exactly one welcome,
\* whose roster has no duplicates and contains the accepted one and the host.
C9_AcceptRoundTrip ==
  (/\ Handled("action") /\ ev.action = "accept"
   /\ ev.target \in Ids /\ WelcomesTo(ev.target) # {})
  => /\ {ev.target, ev.who} \subseteq Approved
     /\ welcomes[ev.target] = 1
     /\ \A m \in WelcomesTo(ev.target) :
          NoDuplicates(m) /\ {ev.target, ev.who} \subseteq RosterIds(m)

\* C10: a join into a room that has a host and requires approval makes the
\* joiner pending, hands it a waiting notice and neither welcome nor roster,
\* and hands the host a join-request with the joiner's id and a pending list
\* holding the joiner; without require_approval the joiner is approved.
C10_PendingJoin ==
  (ev.op = "join" /\ Hosts \ {ev.who} # {}) =>
    IF Truthy(rec[META], "require_approval")
    THEN /\ ev.who \in Pending
         /\ \E m \in SentMsgs : m.type = "waiting" /\ m.to = ev.who
         /\ \A m \in Rosters : m.to # ev.who
         /\ \A h \in Hosts \ {ev.who} :
              /\ \E m \in SentMsgs :
                   m.type = "join-request" /\ m.to = h /\ m.id = ev.who
              /\ \E m \in SentMsgs :
                   /\ m.to = h /\ m.type \in {"join-request", "pending"}
                   /\ ev.who \in RosterIds(m)
    ELSE ev.who \in Approved

\* C11: no participant of the room is host and pending at once, and a join
\* into a room without host makes the joiner host and approved.
C11_HostNeverPending ==
  /\ Hosts \cap Pending = {}
  /\ (ev.op = "join" /\ Hosts \subseteq {ev.who}) => ev.who \in Hosts \cap Approved

\* C12: a message of an unrecognised type is ignored: nothing is sent to
\* anyone and the room is as before.
C12_UnknownTypeIgnored ==
  [][(ev'.op = "recv" /\ ev'.type = "other")
     => (sent' = <<>> /\ room' = room /\ rec' = rec /\ inDir' = inDir)]_vars

\* C13: a reject of the host for a target that is approved, or that is not in
\* the registry, closes no connection, sends nothing and leaves the registry
\* and every flag as they were; and a disconnect cleanup always finds its own
\* participant in the registry, so nobody is removed or announced twice.
C13_RejectApprovedIsNoOp ==
  [][/\ (/\ ev'.op = "recv" /\ ev'.type = "action" /\ ev'.action = "reject"
         /\ Truthy(rec[ev'.who], "is_host")
         /\ ev'.target # NoKey /\ ev'.target \notin Pending)
        => (/\ sent' = <<>> /\ closed' = closed
            /\ room' = room /\ rec' = rec /\ pc' = pc)
     /\ ev'.op = "disconnect"
        => (/\ InSeq(ev'.who, room) /\ ~InSeq(ev'.who, room')
            /\ \A i \in 1..Len(sent') :
                 sent'[i].type = "participant-left" => sent'[i].id = ev'.who)]_vars

\* the host has asked to reject an approved participant other than itself,
\* and nothing was sent or closed
C13_RejectOfApproved ==
  /\ Handled("action") /\ ev.action = "reject"
  /\ ev.who \in Hosts
  /\ ev.target \in Approved \ {ev.who}
  /\ pc[ev.target] = "main"
  /\ sent = <<>> /\ ev.target \notin closed

\* C14: a first message that is not a join gets its connection one error, the
\* close and the removal of its entry; the others are sent nothing and keep
\* their flags; and when no participant is left the room leaves the directory.
C14_NotJoinOnlyHitsSender ==
  [][(ev'.op = "notjoin" /\ pc'[ev'.who] = "done")
     => (/\ Len(sent') = 1 /\ IsErrorTo(sent'[1], ev'.who)
         /\ ev'.who \in closed'
         /\ room' = Without(room, ev'.who)
         /\ rec' = rec
         /\ (Registry' = {} => ~inDir'))]_vars

\* the room-lock messages of the last step that went to k
LocksTo(k) == {m \in SentMsgs : m.type = "room-lock" /\ m.to = k}

\* C15: a lock-room (unlock-room) of the host sets locked to TRUE (FALSE),
\* hands every participant in the room a room-lock with that value, and
\* leaves the host's handler at its main loop, ready for the next message.
C15_LockRoomBroadcast ==
  (/\ Handled("action") /\ ev.action \in {"lock-room", "unlock-room"}
   /\ ev.who \in Hosts)
  => /\ Truthy(rec[META], "locked") = (ev.action = "lock-room")
     /\ \A k \in Registry :
          \E m \in LocksTo(k) : m.locked = (ev.action = "lock-room")
     /\ pc[ev.who] = "main"

\* the connection handlers that are running: waiting for a message or
\* suspended in a send
Running == {c \in Ids : pc[c] \in {"await_join", "main", "busy"}}

\* C17: whatever the interleaving of the handlers at their awaits, every id
\* listed in a welcome or participants-update that reaches a participant of
\* the room is in the room's registry when the message is handed over.
C17_NoRemovedInRoster ==
  \A m \in Rosters :
    m.to \in Registry \cap Running => RosterIds(m) \subseteq Registry

\* C18: every entry of the registry belongs to a handler that is still
\* running: a handler that has ended, for whatever reason, has no entry.
C18_NoEntryWithoutHandler == Registry \subseteq Running

\* C19: a connection that has not sent its join yet is never host.
C19_PlaceholderNeverHost ==
  \A k \in Registry : pc[k] = "await_join" => ~Truthy(rec[k], "is_host")

\* the is_host and is_approved flags of the participants of the room
Flags ==
  [k \in Registry |-> <<Truthy(rec[k], "is_host"), Truthy(rec[k], "is_approved")>>]

\* C20: accept, reject, mute, kick or make-host of the host with a target that
\* is no participant of the room (the "_meta" key included) changes no
\* participant's flags, leaves the host in place and the host's handler at its
\* main loop.
C20_ForeignTargetIsNoOp ==
  [][(/\ ev'.op = "recv" /\ ev'.type = "action" /\ ev'.action \in Targeted
      /\ Truthy(rec[ev'.who], "is_host")
      /\ ev'.target # NoKey /\ ev'.target \notin Registry)
     => (/\ Flags' = Flags
         /\ Hosts' = Hosts
         /\ pc'[ev'.who] = "main")]_vars

\* the last step handled the host's kick of participant t
Kicked(t) ==
  /\ Handled("action") /\ ev.action = "kick" /\ ev.target = t
  /\ Truthy(rec[ev.who], "is_host")
  /\ t \in Registry

\* the participant-left messages of the last step that went to k
LeftTo(k) == {m \in SentMsgs : m.type = "participant-left" /\ m.to = k}

\* C16: a kick of the host hands the target you-are-kicked and closes its
\* connection; the closure being reported to the target's handler, the target
\* is eventually out of the registry, and its removal hands every remaining
\* approved participant a participant-left naming it.
C16_KickRemoves ==
  /\ [](\A t \in Ids :
          Kicked(t) => /\ Len(sent) = 1 /\ sent[1].type = "command"
                       /\ sent[1].info = "you-are-kicked" /\ sent[1].to = t
                       /\ t \in closed)
  /\ \A t \in Ids : Kicked(t) ~> (t \notin Registry)
  /\ []((ev.op = "disconnect" /\ ev.who \in closed)
          => \A k \in Approved : \E m \in LeftTo(k) : m.id = ev.who)
====
